---- MODULE Spec2Model ----
(***************************************************************************)
(* Model of the academic RAG pipeline, pipelines/academic_rag_pipeline.py: *)
(* Pipeline.pipe and the functions it calls (get_embedding,                *)
(* search_documents, format_context, format_bullet_points).                *)
(*                                                                         *)
(* Conventions.                                                            *)
(*  - A Python str is a sequence of tokens.  Data strings (the query, the  *)
(*    fields of a document, an exception's text) are sequences of          *)
(*    one-character tokens, so slicing, split and strip work on            *)
(*    characters.  A string literal of the source is one token.           *)
(*  - A distance / score is an integer number of hundredths (2.0 = 200).   *)
(*  - A Python dict is a function whose DOMAIN is its key set.             *)
(*  - One caller runs Pipeline.pipe once; pc[r] is its position in pipe.   *)
(***************************************************************************)
EXTENDS Integers, Sequences, FiniteSets, TLC

\* ------------------------------------------------------------------ bounds
\* Longest candidate list the index answers with (never more than TOP_K).
MaxHits == 2
\* The largest number of messages in one request of the manifold pipeline.
MaxMessages == 3

\* --------------------------------------------------------- program constants
TOP_K == 5
DEFAULT_SCORE_THRESHOLD == 200
EMBEDDING_DIM == 4096
ABSTRACT_CUTOFF == 500
TEXT_CUTOFF == 1000
SUMMARY_CUTOFF == 200
\* Retry(total=3): the number of retries the session's adapter allows.
RETRY_TOTAL == 3
\* Valves.MAX_IMAGES_PER_REQUEST of the Anthropic manifold pipeline.
MAX_IMAGES_PER_REQUEST == 5

\* The callers that may share one Pipeline object.
Runs == {"r1", "r2"}

\* ------------------------------------------------------------ string helpers
Whitespace == {" ", "\t", "\n"}

Min(S) == CHOOSE x \in S : \A y \in S : x <= y
Max(S) == CHOOSE x \in S : \A y \in S : x >= y

\* text[:n]
Prefix(text, n) == SubSeq(text, 1, IF Len(text) < n THEN Len(text) ELSE n)

\* text.startswith(p)
StartsWith(text, p) == Len(text) >= Len(p) /\ SubSeq(text, 1, Len(p)) = p

\* text.split(sep) for a one-character separator: k separators give k+1 pieces.
Split(text, sep) ==
    LET F[i \in 0..Len(text)] ==
            IF i = 0 THEN << <<>> >>
            ELSE IF text[i] = sep THEN Append(F[i-1], <<>>)
            ELSE [F[i-1] EXCEPT ![Len(F[i-1])] = Append(@, text[i])]
    IN  F[Len(text)]

\* text.strip()
Strip(text) ==
    LET keep == {i \in 1..Len(text) : text[i] \notin Whitespace}
    IN  IF keep = {} THEN <<>> ELSE SubSeq(text, Min(keep), Max(keep))

\* sep.join(parts)
Join(parts, sep) ==
    LET F[i \in 0..Len(parts)] ==
            IF i = 0 THEN <<>>
            ELSE IF i = 1 THEN parts[1]
            ELSE F[i-1] \o <<sep>> \o parts[i]
    IN  F[Len(parts)]

\* dict.get(key, default) / getattr(obj, key, default)
Get(d, key, default) == IF key \in DOMAIN d THEN d[key] ELSE default

\* sum(d['score'] for d in documents)
SumScores(documents) ==
    LET F[i \in 0..Len(documents)] ==
            IF i = 0 THEN 0 ELSE F[i-1] + documents[i].score
    IN  F[Len(documents)]

\* f"{score:.4f}" of a score given in hundredths
Fixed4(score) ==
    << ToString(score \div 100), ".", ToString((score % 100) \div 10),
       ToString(score % 10), "0", "0" >>

\* ------------------------------------------------------------ fixed messages
EMBEDDING_FAILED_MSG == << "Failed to generate embedding for your question." >>
NO_RESULTS_MSG == << "No relevant academic papers found for your question." >>
ERROR_PREFIX == "An error occurred while processing your request: "
NOT_AVAILABLE == << "Not available" >>
NO_SUMMARY == << "No summary available" >>
ELLIPSIS == << "..." >>
\* the bullet marker "\u2022 " of format_bullet_points, written in ASCII
BULLET == "* "
SYSTEM_PROMPT == << "You are a highly knowledgeable research analyst ..." >>

\* Optional[...] values and locals not yet assigned
None == [is_none |-> TRUE]
Some(v) == [is_none |-> FALSE, value |-> v]

\* ------------------------------------------------------------ input domains
Alphabet == << "a", "b", "c", "d", "e", "f", "g" >>
\* a data string of n characters whose i-th character depends on i
LongText(n) == [i \in 1..n |-> Alphabet[(i % 7) + 1]]

\* The records the vector index may hold, by primary key.  Record 3 lacks
\* every output field but text, doc_id included.
Entity(id) ==
    CASE id = 1 -> [ doc_id |-> 1,
                     source_file |-> << "2", "0", "2", "3", "-", "a" >>,
                     text |-> LongText(2 * TEXT_CUTOFF),
                     summary |-> LongText(SUMMARY_CUTOFF + 1),
                     abstract |-> LongText(ABSTRACT_CUTOFF + 100),
                     key_points |-> << "a", ",", " ", "b", ",", ",", "c", " " >>,
                     technical_terms |-> <<>>,
                     relationships |-> << ",", " " >> ]
      [] id = 2 -> [ doc_id |-> 2,
                     source_file |-> << "n", "-", "1" >>,
                     text |-> << "h", "i" >>,
                     summary |-> <<>>,
                     abstract |-> << "x" >>,
                     key_points |-> <<>>,
                     technical_terms |-> << "q" >>,
                     relationships |-> <<>> ]
      [] OTHER  -> [ text |-> << "t" >> ]

AllEntities == {1, 2, 3}
Distances == {50, 180, 200, 250}
Thresholds == {DEFAULT_SCORE_THRESHOLD, 180}
Queries == { <<>>, << " ", "\t" >>, << "W", "h", "y", "?" >> }
ExceptionTexts == { << "c", "o", "n", "n" >>, << "t", "i", "m", "e" >> }

\* An embedding vector of length n.
Vector(n) == [i \in 1..n |-> (i % 3) - 1]

\* What session.post(...) can end in: a transport-level failure (a
\* RequestException), or a response with a status and a body.  A body is not
\* JSON ("invalid") or a JSON object.
JsonBodies ==
    { [data |-> << [embedding |-> Vector(n)] >>] :
          n \in {0, 10, EMBEDDING_DIM - 1, EMBEDDING_DIM, EMBEDDING_DIM + 1} }
    \cup { [data |-> << [object |-> "embedding"] >>], [data |-> <<>>],
           [error |-> "bad request"] }

\* A transport-level failure is a failure to connect (connection refused,
\* connect timeout) or a failure while reading the response (read timeout,
\* connection reset after the request was sent).
TransportErrors == {"connect", "read"}

PostOutcomes ==
    { [kind |-> "transport", error |-> e] : e \in TransportErrors }
    \cup { [kind |-> "response", status |-> s, json |-> None] : s \in {200, 404, 503} }
    \cup { [kind |-> "response", status |-> 200, json |-> Some(b)] : b \in JsonBodies }

\* What self._collection.search(...) can end in, given the records held and
\* the limit asked for: an exception, or one result set per query vector whose
\* hits are distinct records in ascending distance.
HitLists(coll, limit) ==
    LET Hit == [distance : Distances, id : coll]
        n == IF limit < MaxHits THEN limit ELSE MaxHits
    IN  { h \in UNION { [1..k -> Hit] : k \in 0..n } :
            /\ \A i, j \in 1..Len(h) : i < j => h[i].distance <= h[j].distance
            /\ \A i, j \in 1..Len(h) : i # j => h[i].id # h[j].id }

SearchOutcomes(coll, limit) ==
    { [kind |-> "raise", text |-> e] : e \in ExceptionTexts }
    \cup { [kind |-> "results", sets |-> << h >>] : h \in HitLists(coll, limit) }

\* ------------------------------------------------------------------- state
VARIABLES
    valves,        \* self.valves: TOP_K and SCORE_THRESHOLD
    collection,    \* the primary keys of the records self._collection holds
    callers,       \* the callers sharing this Pipeline object
    pc,            \* per caller: its position in Pipeline.pipe
    user_message,  \* per caller: pipe's argument user_message
    body,          \* per caller: pipe's argument body (the caller's dict)
    response,      \* per caller: what session.post ended in
    embedding,     \* per caller: pipe's local embedding
    results,       \* per caller: what self._collection.search ended in
    documents,     \* per caller: pipe's local documents
    context,       \* per caller: pipe's local context
    metadata,      \* per caller: pipe's local metadata
    result,        \* per caller: the value pipe returned
    calls,         \* per caller: the Pipeline methods pipe called, in order
    log,           \* per caller: the logger lines of its run, <<level, message>>
    attempts       \* per caller: the failed attempts of its session.post in flight

\* The text-to-art Pipeline (text_to_art.py): one call of its pipe.
VARIABLES
    art_pc,            \* the position of the call in pipe
    art_user_message,  \* pipe's argument user_message
    art_body,          \* pipe's argument body
    font,              \* pipe's local font
    ascii_art,         \* pipe's local ascii_art
    art_result,        \* the value pipe returned
    commands           \* the subprocesses started, as <<text, font>>

artVars == << art_pc, art_user_message, art_body, font, ascii_art, art_result,
              commands >>

\* The Anthropic manifold Pipeline (anthropic_manifold_pipeline.py): one call
\* of its pipe.
VARIABLES
    manifold_pc,         \* the position of the call in pipe
    model_id,            \* pipe's argument model_id
    messages,            \* pipe's argument messages
    message_index,       \* the message the outer loop is at
    item_index,          \* the item the inner loop is at
    image_count,         \* pipe's local image_count
    processed_content,   \* pipe's local processed_content
    processed_messages,  \* pipe's local processed_messages
    payload              \* the messages of the payload built, or the error

manifoldVars == << manifold_pc, model_id, messages, message_index, item_index,
                   image_count, processed_content, processed_messages, payload >>

\* The state of the pipelines other than the academic one.
others == << artVars, manifoldVars >>

vars == << valves, collection, callers, pc, user_message, body, response,
           embedding, results, documents, context, metadata, result, calls, log,
           attempts, others >>

\* ----------------------------------------------------------- get_embedding
\* Faulty variant of get_embedding: a vector that is too long is cut to
\* EMBEDDING_DIM entries instead of being rejected.
get_embedding_Truncating(post) ==
    IF post.kind = "transport" \/ post.status >= 400
    THEN [ ret |-> None, log |-> << <<"error", "Error fetching embedding: ">> >> ]
    ELSE IF post.json.is_none
    THEN [ ret |-> None,
           log |-> << <<"error", "Unexpected error in embedding generation: ">> >> ]
    ELSE LET items == Get(post.json.value, "data", <<>>)
         IN  IF Len(items) = 0
             THEN [ ret |-> None,
                    log |-> << <<"error", "Unexpected error in embedding generation: ">> >> ]
             ELSE LET vector == Get(items[1], "embedding", <<>>)
                  IN  IF Len(vector) < EMBEDDING_DIM
                      THEN [ ret |-> None,
                             log |-> << <<"error", "Invalid embedding dimension: ">> >> ]
                      ELSE [ ret |-> Some(Prefix(vector, EMBEDDING_DIM)),
                             log |-> << <<"info", "Generated embedding of dimension ">> >> ]

\* The value get_embedding returns, and the lines it logs, when session.post
\* ends in `post`.
get_embedding(post) ==
    IF post.kind = "transport" \/ post.status >= 400
    THEN \* session.post or raise_for_status raised a RequestException
         [ ret |-> None, log |-> << <<"error", "Error fetching embedding: ">> >> ]
    ELSE IF post.json.is_none
    THEN \* response.json() raised; which of the two except branches logs it
         \* depends on the requests version, both return None
         [ ret |-> None,
           log |-> << <<"error", "Unexpected error in embedding generation: ">> >> ]
    ELSE LET data == post.json.value
             items == Get(data, "data", <<>>)
         IN  IF Len(items) = 0
             THEN \* [][0] raised IndexError
                  [ ret |-> None,
                    log |-> << <<"error", "Unexpected error in embedding generation: ">> >> ]
             ELSE LET vector == Get(items[1], "embedding", <<>>)
                  IN  IF Len(vector) # EMBEDDING_DIM
                      THEN [ ret |-> None,
                             log |-> << <<"error", "Invalid embedding dimension: ">> >> ]
                      ELSE [ ret |-> Some(vector),
                             log |-> << <<"info", "Generated embedding of dimension ">> >> ]

\* ------------------------------------------------------------ retry policy
\* status_forcelist of the Retry object.
STATUS_FORCELIST == {429, 500, 502, 503, 504}

\* allowed_methods of the Retry object: the constructor call passes none, so
\* it is urllib3's default, the idempotent methods.
ALLOWED_METHODS == {"HEAD", "GET", "PUT", "DELETE", "OPTIONS", "TRACE"}

\* Retry._is_method_retryable.
is_method_retryable(method) == method \in ALLOWED_METHODS

\* Whether the adapter's Retry object treats the outcome of one attempt as
\* retryable: a failure to connect for every method, a failure while reading
\* and a status of STATUS_FORCELIST for the allowed methods only.
is_retry(method, post) ==
    IF post.kind = "transport"
    THEN post.error = "connect" \/ is_method_retryable(method)
    ELSE is_method_retryable(method) /\ post.status \in STATUS_FORCELIST

\* Retry.is_exhausted after `failed` retryable failures: each one lowers
\* total by one, and the budget is spent when total is below zero.
is_exhausted(failed) == RETRY_TOTAL - failed < 0

\* Whether session.post makes another attempt after its attempt number
\* failed + 1 ended in `post`.
Retries(method, post, failed) ==
    is_retry(method, post) /\ ~is_exhausted(failed + 1)

\* -------------------------------------------------------- search_documents
\* Faulty variant of MakeDocument: an absent field is given the marker of an
\* unknown value whatever its kind, and an absent doc_id is 0.
MakeDocument_UnknownEverywhere(hit) ==
    LET entity == Entity(hit.id)
        source_file == Get(entity, "source_file", << "Unknown" >>)
        year == IF StartsWith(source_file, << "2", "0" >>)
                THEN Split(source_file, "-")[1]
                ELSE << "Unknown" >>
    IN  [ doc_id |-> Get(entity, "doc_id", 0),
          source_file |-> source_file,
          year |-> year,
          text |-> Get(entity, "text", << "Unknown" >>),
          summary |-> Get(entity, "summary", << "Unknown" >>),
          abstract |-> Get(entity, "abstract", << "Unknown" >>),
          key_points |-> Get(entity, "key_points", << "Unknown" >>),
          technical_terms |-> Get(entity, "technical_terms", << "Unknown" >>),
          relationships |-> Get(entity, "relationships", << "Unknown" >>),
          score |-> hit.distance ]

\* The dict search_documents builds for one hit.
MakeDocument(hit) ==
    LET entity == Entity(hit.id)
        source_file == Get(entity, "source_file", << "Unknown" >>)
        year == IF StartsWith(source_file, << "2", "0" >>)
                THEN Split(source_file, "-")[1]
                ELSE << "Unknown" >>
    IN  [ doc_id |-> Get(entity, "doc_id", -1),
          source_file |-> source_file,
          year |-> year,
          text |-> Get(entity, "text", <<>>),
          summary |-> Get(entity, "summary", <<>>),
          abstract |-> Get(entity, "abstract", <<>>),
          key_points |-> Get(entity, "key_points", <<>>),
          technical_terms |-> Get(entity, "technical_terms", <<>>),
          relationships |-> Get(entity, "relationships", <<>>),
          score |-> hit.distance ]

\* Faulty variant of PassesThreshold: a strict comparison.
PassesThreshold_Strict(score, threshold) == score < threshold

\* score <= self.valves.SCORE_THRESHOLD
PassesThreshold(score, threshold) == score <= threshold

\* The inner loop: the documents of one result set, appended to `docs`.
FilterHits(hits, threshold, docs) ==
    LET F[i \in 0..Len(hits)] ==
            IF i = 0 THEN docs
            ELSE IF PassesThreshold(hits[i].distance, threshold)
                 THEN Append(F[i-1], MakeDocument(hits[i]))
                 ELSE F[i-1]
    IN  F[Len(hits)]

\* The outer loop over the result sets.
CollectDocuments(sets, threshold) ==
    LET F[i \in 0..Len(sets)] ==
            IF i = 0 THEN <<>> ELSE FilterHits(sets[i], threshold, F[i-1])
    IN  F[Len(sets)]

\* Faulty variant of search_documents: an exception of the index search is
\* swallowed and an empty list returned.
search_documents_Swallowing(out, v) ==
    IF out.kind = "raise"
    THEN [ raised |-> FALSE, text |-> <<>>, documents |-> <<>>,
           log |-> << <<"info", "Searching collection">>,
                      <<"error", "Search error: ">> >> ]
    ELSE LET docs == CollectDocuments(out.sets, v.SCORE_THRESHOLD)
         IN  [ raised |-> FALSE, text |-> <<>>, documents |-> docs,
               log |-> << <<"info", "Searching collection">>,
                          <<"info", "Search returned">> >> ]

\* What search_documents ends in when the index search ends in `out`.
search_documents(out, v) ==
    IF out.kind = "raise"
    THEN [ raised |-> TRUE, text |-> out.text, documents |-> <<>>,
           log |-> << <<"info", "Searching collection">>,
                      <<"error", "Search error: ">> >> ]
    ELSE LET docs == CollectDocuments(out.sets, v.SCORE_THRESHOLD)
         IN  [ raised |-> FALSE, text |-> <<>>, documents |-> docs,
               log |-> << <<"info", "Searching collection">>,
                          <<"info", "Search returned">> >>
                       \o [i \in 1..Len(docs) |-> <<"info", "Added document">>]
                       \o (IF Len(docs) = 0
                           THEN << <<"warning", "No documents passed the score threshold.">> >>
                           ELSE <<>>) ]

\* ---------------------------------------------------------- format_context
\* The stripped, non-empty pieces of `pieces`, in order.
StrippedPoints(pieces) ==
    LET F[i \in 0..Len(pieces)] ==
            IF i = 0 THEN <<>>
            ELSE IF Len(Strip(pieces[i])) > 0
                 THEN Append(F[i-1], Strip(pieces[i]))
                 ELSE F[i-1]
    IN  F[Len(pieces)]

\* Faulty variant of format_bullet_points: no placeholder for an empty string.
format_bullet_points_NoPlaceholder(text, separator) ==
    LET points == StrippedPoints(Split(text, separator))
    IN  Join([i \in 1..Len(points) |-> << BULLET >> \o points[i]], "\n")

format_bullet_points(text, separator) ==
    IF Len(text) = 0
    THEN NOT_AVAILABLE
    ELSE LET points == StrippedPoints(Split(text, separator))
         IN  Join([i \in 1..Len(points) |-> << BULLET >> \o points[i]], "\n")

\* Faulty variant of Excerpt: the slice is one character short.
Excerpt_OffByOne(text, cutoff) == Prefix(text, cutoff - 1) \o ELLIPSIS

\* doc['abstract'][:500] followed by "..."
Excerpt(text, cutoff) == Prefix(text, cutoff) \o ELLIPSIS

llm_section(i, doc) ==
    << "Document ", ToString(i), " (" >> \o doc.year \o << "): " >>
    \o doc.source_file \o << "\n\n", "Abstract:\n" >>
    \o Excerpt(doc.abstract, ABSTRACT_CUTOFF)
    \o << "\n\n", "Key Points:\n" >> \o format_bullet_points(doc.key_points, ",")
    \o << "\n\n", "Technical Terms:\n" >>
    \o format_bullet_points(doc.technical_terms, ",")
    \o << "\n\n", "Most Relevant Content:\n" >> \o Excerpt(doc.text, TEXT_CUTOFF)
    \o << "\n\n", "Relationships:\n" >>
    \o format_bullet_points(doc.relationships, ",")
    \o << "\n\n", "Relevance Score: " >> \o Fixed4(doc.score) \o << "\n", "---\n" >>

user_record(doc) ==
    [ source |-> doc.source_file \o << " (" >> \o doc.year \o << ")" >>,
      summary |-> IF Len(doc.summary) > 0
                  THEN Excerpt(doc.summary, SUMMARY_CUTOFF)
                  ELSE NO_SUMMARY,
      key_points |-> doc.key_points,
      relevance_score |-> doc.score,
      technical_terms |-> doc.technical_terms ]

format_context(docs) ==
    [ context |-> Join([i \in 1..Len(docs) |-> llm_section(i, docs[i])], "\n"),
      metadata |-> [i \in 1..Len(docs) |-> user_record(docs[i])] ]

\* --------------------------------------------------------------------- pipe
\* Faulty variant of Falsy: the test on the embedding is missing.
Falsy_Never(opt) == FALSE

\* "if not embedding": None and [] are falsy.
Falsy(opt) == opt.is_none \/ Len(opt.value) = 0

\* Faulty variant of NoDocuments: the test on the documents is missing.
NoDocuments_Never(docs) == FALSE

\* "if not documents"
NoDocuments(docs) == Len(docs) = 0

\* The caller's body dict on entry (test_pipeline.py passes a temperature).
InitialBody == [ temperature |-> 7 ]

\* Clock readings, in seconds since pipe started.
ElapsedTimes == {0, 1}

\* Faulty variant of run_metadata: the average is taken over TOP_K.
run_metadata_AverageOverTopK(meta, docs, elapsed) ==
    [ sources |-> meta,
      query_timestamp |-> elapsed,
      total_sources |-> Len(docs),
      average_score |-> [ num |-> SumScores(docs), den |-> TOP_K ],
      processing_time |-> << ToString(elapsed), ".", "0", "0", "s" >> ]

\* The dict pipe stores under body["metadata"].
run_metadata(meta, docs, elapsed) ==
    [ sources |-> meta,
      query_timestamp |-> elapsed,
      total_sources |-> Len(docs),
      average_score |-> [ num |-> SumScores(docs), den |-> Len(docs) ],
      processing_time |-> << ToString(elapsed), ".", "0", "0", "s" >> ]

\* The messages list pipe builds.
build_messages(ctx, query) ==
    << [ role |-> "system", content |-> SYSTEM_PROMPT ],
       [ role |-> "user",
         content |-> << "Based on these academic papers:\n\n" >> \o ctx
                     \o << "\n\n", "Please answer this question: " >> \o query
                     \o << "\n\n", "Remember to include year citations ..." >> ] >>

\* The message of pipe's except branch.
error_message(text) == << ERROR_PREFIX >> \o text

Str(text) == [ kind |-> "str", text |-> text ]
Dict(d) == [ kind |-> "dict", dict |-> d ]
NoResult == [ kind |-> "none" ]
\* Faulty variant of handle_exception: the exception is raised again and
\* leaves pipe.
handle_exception_Reraising(text) == [ kind |-> "exception", text |-> text ]

\* What pipe ends in when an exception with this text reaches its except
\* branch: the message is returned.
handle_exception(text) == Str(error_message(text))

\* Faulty variant of early_return_body: the message is also left in the
\* caller's dict.
early_return_body_Annotating(b) == [ error |-> TRUE ] @@ b

\* The caller's body dict after pipe returned a message string: the return
\* statements of lines 265, 269 and 297 write no key of it.
early_return_body(b) == b

\* Faulty variant of Local: the value is kept on the Pipeline object, where
\* every run reads and writes the same attribute.
Local_OnSelf(store, r, value) == [x \in DOMAIN store |-> value]

\* A local variable of pipe is bound to a value: each run of pipe has its own
\* frame, so the binding of run r changes and no other.
Local(store, r, value) == [store EXCEPT ![r] = value]

\* No call of the text-to-art pipe has been made.
ArtIdle ==
    /\ art_pc = "idle"
    /\ art_user_message = <<>>
    /\ art_body = [model |-> "art"]
    /\ font = None
    /\ ascii_art = None
    /\ art_result = None
    /\ commands = <<>>

\* No call of the manifold pipe has been made.
ManifoldIdle ==
    /\ manifold_pc = "idle"
    /\ model_id = ""
    /\ messages = <<>>
    /\ message_index = 0
    /\ item_index = 0
    /\ image_count = 0
    /\ processed_content = <<>>
    /\ processed_messages = <<>>
    /\ payload = None

\* No run of the academic pipe has started.
RunsIdle ==
    /\ pc = [r \in Runs |-> "idle"]
    /\ user_message = [r \in Runs |-> <<>>]
    /\ body = [r \in Runs |-> InitialBody]
    /\ response = [r \in Runs |-> None]
    /\ embedding = [r \in Runs |-> None]
    /\ results = [r \in Runs |-> None]
    /\ documents = [r \in Runs |-> <<>>]
    /\ context = [r \in Runs |-> <<>>]
    /\ metadata = [r \in Runs |-> <<>>]
    /\ result = [r \in Runs |-> NoResult]
    /\ calls = [r \in Runs |-> <<>>]
    /\ log = [r \in Runs |-> <<>>]
    /\ attempts = [r \in Runs |-> 0]

Init ==
    /\ \E t \in Thresholds : valves = [ TOP_K |-> TOP_K, SCORE_THRESHOLD |-> t ]
    /\ \/ callers = {"r1"} /\ collection = AllEntities
       \/ callers = Runs /\ collection = {2}
    /\ RunsIdle
    /\ ArtIdle
    /\ ManifoldIdle

\* pipe is entered with a query: lines 259-261.
PipeStart(r) ==
    /\ UNCHANGED others
    /\ r \in callers
    /\ pc[r] = "idle"
    /\ \E q \in Queries : user_message' = [user_message EXCEPT ![r] = q]
    /\ log' = [log EXCEPT ![r] = Append(@, <<"info", "Processing query: ">>)]
    /\ pc' = [pc EXCEPT ![r] = "embed"]
    /\ UNCHANGED << valves, collection, callers, body, response, embedding,
                    results, documents, context, metadata, result, calls,
                    attempts >>

\* One attempt of session.post inside get_embedding ends in a way the retry
\* policy retries, with budget left, and the adapter sends the request again:
\* line 139 under the adapter of lines 85-92.
RetryPost(r) ==
    /\ UNCHANGED others
    /\ pc[r] = "embed"
    /\ \E post \in PostOutcomes : Retries("POST", post, attempts[r])
    /\ attempts' = [attempts EXCEPT ![r] = @ + 1]
    /\ UNCHANGED << valves, collection, callers, pc, user_message, body,
                    response, embedding, results, documents, context, metadata,
                    result, calls, log >>

\* embedding = self.get_embedding(user_message) and the test on it: 263-265.
\* The attempt of session.post that is not retried decides what it ends in.
GetEmbedding(r) ==
    /\ UNCHANGED others
    /\ pc[r] = "embed"
    /\ attempts' = [attempts EXCEPT ![r] = 0]
    /\ \E post \in PostOutcomes :
         LET got == get_embedding(post)
         IN  /\ ~Retries("POST", post, attempts[r])
             /\ response' = [response EXCEPT ![r] = Some(post)]
             /\ embedding' = Local(embedding, r, got.ret)
             /\ log' = [log EXCEPT ![r] = @ \o got.log]
             /\ IF Falsy(got.ret)
                THEN /\ result' = [result EXCEPT ![r] = Str(EMBEDDING_FAILED_MSG)]
                     /\ body' = [body EXCEPT ![r] = early_return_body(@)]
                     /\ pc' = [pc EXCEPT ![r] = "done"]
                ELSE /\ pc' = [pc EXCEPT ![r] = "search"]
                     /\ UNCHANGED << result, body >>
    /\ calls' = [calls EXCEPT ![r] = Append(@, "get_embedding")]
    /\ UNCHANGED << valves, collection, callers, user_message, results,
                    documents, context, metadata >>

\* documents = self.search_documents(embedding), the test on it, and the
\* except branch of pipe when it raises: 267-269, 295-297.
SearchDocuments(r) ==
    /\ UNCHANGED others
    /\ pc[r] = "search"
    /\ \E out \in SearchOutcomes(collection, valves.TOP_K) :
         LET got == search_documents(out, valves)
         IN  /\ results' = [results EXCEPT ![r] = Some(out)]
             /\ IF got.raised
                THEN /\ log' = [log EXCEPT ![r] =
                                   @ \o got.log \o << <<"error", "Pipeline error: ">> >>]
                     /\ result' = [result EXCEPT ![r] = handle_exception(got.text)]
                     /\ body' = [body EXCEPT ![r] = early_return_body(@)]
                     /\ pc' = [pc EXCEPT ![r] = "done"]
                     /\ UNCHANGED documents
                ELSE /\ log' = [log EXCEPT ![r] = @ \o got.log]
                     /\ documents' = Local(documents, r, got.documents)
                     /\ IF NoDocuments(got.documents)
                        THEN /\ result' = [result EXCEPT ![r] = Str(NO_RESULTS_MSG)]
                             /\ body' = [body EXCEPT ![r] = early_return_body(@)]
                             /\ pc' = [pc EXCEPT ![r] = "done"]
                        ELSE /\ pc' = [pc EXCEPT ![r] = "format"]
                             /\ UNCHANGED << result, body >>
    /\ calls' = [calls EXCEPT ![r] = Append(@, "search_documents")]
    /\ UNCHANGED << valves, collection, callers, user_message, response,
                    embedding, context, metadata, attempts >>

\* context, metadata = self.format_context(documents): 271.
FormatContext(r) ==
    /\ UNCHANGED others
    /\ pc[r] = "format"
    /\ LET got == format_context(documents[r])
       IN  /\ context' = Local(context, r, got.context)
           /\ metadata' = Local(metadata, r, got.metadata)
    /\ calls' = [calls EXCEPT ![r] = Append(@, "format_context")]
    /\ pc' = [pc EXCEPT ![r] = "assemble"]
    /\ UNCHANGED << valves, collection, callers, user_message, body, response,
                    embedding, results, documents, result, log, attempts >>

\* The messages and metadata are stored in body, which is returned: 272-293.
Assemble(r) ==
    /\ UNCHANGED others
    /\ pc[r] = "assemble"
    /\ \E elapsed \in ElapsedTimes :
         LET filled == [ messages |-> build_messages(context[r], user_message[r]),
                         metadata |-> run_metadata(metadata[r], documents[r], elapsed) ]
                       @@ body[r]
         IN  /\ body' = [body EXCEPT ![r] = filled]
             /\ result' = [result EXCEPT ![r] = Dict(filled)]
    /\ log' = [log EXCEPT ![r] = Append(@, <<"info", "Pipeline completed">>)]
    /\ pc' = [pc EXCEPT ![r] = "done"]
    /\ UNCHANGED << valves, collection, callers, user_message, response,
                    embedding, results, documents, context, metadata, calls,
                    attempts >>

Next ==
    \E r \in Runs :
        \/ PipeStart(r)
        \/ RetryPost(r)
        \/ GetEmbedding(r)
        \/ SearchDocuments(r)
        \/ FormatContext(r)
        \/ Assemble(r)

Spec == Init /\ [][Next]_vars

\* ============================================================ text_to_art.py
\* The state of the academic pipeline.
academicVars == << valves, collection, callers, pc, user_message, body,
                   response, embedding, results, documents, context, metadata,
                   result, calls, log, attempts >>

ART_EMPTY_MSG == << "Error: Please provide some text to generate ASCII art." >>
ART_FAILED_MSG == << "Failed to generate ASCII art." >>
ART_ERROR_PREFIX == "Error generating ASCII art: "
DEFAULT_FONT == << "block" >>

\* The messages, the bodies and the subprocess outcomes of the calls modelled.
ArtMessages ==
    { <<>>, << " " >>, << " ", "\t", "\n" >>, << "\n", "\n" >>,
      << "H", "i" >>, << " ", "H", "i", "\n" >>, << "a", " ", "b" >> }
ArtBodies ==
    { [model |-> "art"] }
    \cup { [model |-> "art", font |-> f] :
             f \in { DEFAULT_FONT, << "t", "h", "i", "n" >>, <<>> } }
SubprocessOutcomes ==
    { [kind |-> k, out |-> o] :
        k \in {"ok", "failed"}, o \in { << "#", "#", "\n" >>, << "\n" >> } }

\* Faulty variant of IsEmptyMessage: the message is not stripped first.
IsEmptyMessage_NoStrip(text) == Len(text) = 0

\* not user_message.strip()
IsEmptyMessage(text) == Len(Strip(text)) = 0

\* What execute_art_command returns when the subprocess ends in `run`.
execute_art_command(run) ==
    IF run.kind = "ok" THEN Strip(run.out)
    ELSE << ART_ERROR_PREFIX >> \o Strip(run.out)

\* pipe is called: the font is read from the body and the message is tested.
ArtPipe ==
    /\ art_pc = "idle"
    /\ \E msg \in ArtMessages, b \in ArtBodies :
         /\ art_user_message' = msg
         /\ art_body' = b
         /\ font' = Some(Get(b, "font", DEFAULT_FONT))
         /\ IF IsEmptyMessage(msg)
            THEN /\ art_result' = Some(ART_EMPTY_MSG)
                 /\ art_pc' = "done"
            ELSE /\ art_pc' = "execute"
                 /\ UNCHANGED art_result
    /\ UNCHANGED << ascii_art, commands, academicVars, manifoldVars >>

\* ascii_art = self.execute_art_command(user_message.strip(), font): a
\* subprocess is started and ends.
ExecuteArtCommand ==
    /\ art_pc = "execute"
    /\ commands' = Append(commands, << Strip(art_user_message), font.value >>)
    /\ \E run \in SubprocessOutcomes :
         ascii_art' = Some(execute_art_command(run))
    /\ art_pc' = "return"
    /\ UNCHANGED << art_user_message, art_body, font, art_result, academicVars,
                    manifoldVars >>

\* return ascii_art or "Failed to generate ASCII art."
ArtReturn ==
    /\ art_pc = "return"
    /\ art_result' = Some(IF Len(ascii_art.value) = 0 THEN ART_FAILED_MSG
                          ELSE ascii_art.value)
    /\ art_pc' = "done"
    /\ UNCHANGED << art_user_message, art_body, font, ascii_art, commands,
                    academicVars, manifoldVars >>

ArtInit ==
    /\ valves = [ TOP_K |-> TOP_K, SCORE_THRESHOLD |-> DEFAULT_SCORE_THRESHOLD ]
    /\ callers = {}
    /\ collection = {}
    /\ RunsIdle
    /\ ArtIdle
    /\ ManifoldIdle

ArtNext == ArtPipe \/ ExecuteArtCommand \/ ArtReturn

ArtSpec == ArtInit /\ [][ArtNext]_vars

\* ============================================== anthropic_manifold_pipeline.py
\* The keys of self.model_mapping, and a model_id that is not one of them.
KnownModels == {"1", "2", "3", "4"}
ModelIds == {"1", "9"}

\* What an image_url item can carry, with what validate_image_size finds for
\* it: a data URL within or over the size limit, an http URL whose HEAD
\* answer gives a size within the limit or none that is, a URL of another
\* scheme, and a value without "url".
ValidImages == {"data_ok", "http_ok"}
Images == ValidImages \cup {"data_big", "http_big", "ftp", "no_url"}

TextItem(text) == [type |-> "text", data |-> text]
ImageItem(image) == [type |-> "image_url", data |-> image]
StrContent(text) == [kind |-> "str", text |-> text, items |-> <<>>]
ListContent(items) == [kind |-> "list", text |-> "", items |-> items]

\* The contents of the messages modelled.
Contents ==
    { StrContent("hello"),
      ListContent(<< TextItem("a"), ImageItem("data_ok"), ImageItem("http_ok"),
                     ImageItem("data_ok"), TextItem("b") >>),
      ListContent(<< ImageItem("data_ok"), ImageItem("ftp"), ImageItem("data_big"),
                     ImageItem("http_ok"), ImageItem("no_url"),
                     ImageItem("http_big") >>),
      ListContent(<< ImageItem("http_ok"), TextItem("c"), ImageItem("data_ok"),
                     ImageItem("data_ok") >>),
      ListContent(<< ImageItem("data_ok"), ImageItem("data_ok") >>) }

\* The message lists modelled.
MessageLists ==
    UNION { [1..n -> [role : {"user"}, content : Contents]] : n \in 0..MaxMessages }

\* The block process_image returns for the image, or None.
process_image(image) ==
    IF image \in ValidImages THEN Some([type |-> "image", data |-> image])
    ELSE None

\* Faulty variant of CapReached: one image too many is let through.
CapReached_OffByOne(count) == count > MAX_IMAGES_PER_REQUEST

\* image_count >= self.valves.MAX_IMAGES_PER_REQUEST
CapReached(count) == count >= MAX_IMAGES_PER_REQUEST

\* The message and the item the loops are at.
Message == messages[message_index]
Item == Message.content.items[item_index]

\* pipe is called: the model is looked up and the loop over messages starts.
ManifoldPipe ==
    /\ manifold_pc = "idle"
    /\ \E id \in ModelIds, list \in MessageLists :
         /\ model_id' = id
         /\ messages' = list
         /\ IF id \in KnownModels
            THEN /\ manifold_pc' = "message"
                 /\ message_index' = 1
                 /\ UNCHANGED payload
            ELSE /\ manifold_pc' = "done"
                 /\ payload' = Some(<< "Error: Unknown model" >>)
                 /\ UNCHANGED message_index
    /\ UNCHANGED << item_index, image_count, processed_content,
                    processed_messages, academicVars, artVars >>

\* A message whose content is a string becomes one text block.
StrMessage ==
    /\ manifold_pc = "message"
    /\ message_index <= Len(messages)
    /\ Message.content.kind = "str"
    /\ processed_messages' =
          Append(processed_messages,
                 [ role |-> Message.role,
                   content |-> << [type |-> "text", data |-> Message.content.text] >> ])
    /\ message_index' = message_index + 1
    /\ UNCHANGED << manifold_pc, model_id, messages, item_index, image_count,
                    processed_content, payload, academicVars, artVars >>

\* A message whose content is a list: the loop over its items starts.
ListMessage ==
    /\ manifold_pc = "message"
    /\ message_index <= Len(messages)
    /\ Message.content.kind = "list"
    /\ processed_content' = <<>>
    /\ item_index' = 1
    /\ manifold_pc' = "item"
    /\ UNCHANGED << model_id, messages, message_index, image_count,
                    processed_messages, payload, academicVars, artVars >>

\* A text item is appended.
ProcessText ==
    /\ manifold_pc = "item"
    /\ item_index <= Len(Message.content.items)
    /\ Item.type = "text"
    /\ processed_content' =
          Append(processed_content, [type |-> "text", data |-> Item.data])
    /\ item_index' = item_index + 1
    /\ UNCHANGED << manifold_pc, model_id, messages, message_index, image_count,
                    processed_messages, payload, academicVars, artVars >>

\* An image item is skipped when the cap is reached; else it is processed,
\* and appended and counted when process_image returns a block.
ProcessImage ==
    /\ manifold_pc = "item"
    /\ item_index <= Len(Message.content.items)
    /\ Item.type = "image_url"
    /\ IF CapReached(image_count)
       THEN UNCHANGED << processed_content, image_count >>
       ELSE LET processed_image == process_image(Item.data)
            IN  IF processed_image.is_none
                THEN UNCHANGED << processed_content, image_count >>
                ELSE /\ processed_content' =
                           Append(processed_content, processed_image.value)
                     /\ image_count' = image_count + 1
    /\ item_index' = item_index + 1
    /\ UNCHANGED << manifold_pc, model_id, messages, message_index,
                    processed_messages, payload, academicVars, artVars >>

\* The items are done: the message is kept when it has any processed content.
EndMessage ==
    /\ manifold_pc = "item"
    /\ item_index > Len(Message.content.items)
    /\ processed_messages' =
          IF Len(processed_content) > 0
          THEN Append(processed_messages,
                      [role |-> Message.role, content |-> processed_content])
          ELSE processed_messages
    /\ message_index' = message_index + 1
    /\ manifold_pc' = "message"
    /\ UNCHANGED << model_id, messages, item_index, image_count,
                    processed_content, payload, academicVars, artVars >>

\* The messages are done: the payload is built from processed_messages.
BuildPayload ==
    /\ manifold_pc = "message"
    /\ message_index > Len(messages)
    /\ payload' = Some(processed_messages)
    /\ manifold_pc' = "done"
    /\ UNCHANGED << model_id, messages, message_index, item_index, image_count,
                    processed_content, processed_messages, academicVars, artVars >>

ManifoldInit ==
    /\ valves = [ TOP_K |-> TOP_K, SCORE_THRESHOLD |-> DEFAULT_SCORE_THRESHOLD ]
    /\ callers = {}
    /\ collection = {}
    /\ RunsIdle
    /\ ArtIdle
    /\ ManifoldIdle

ManifoldNext ==
    \/ ManifoldPipe
    \/ StrMessage
    \/ ListMessage
    \/ ProcessText
    \/ ProcessImage
    \/ EndMessage
    \/ BuildPayload

ManifoldSpec == ManifoldInit /\ [][ManifoldNext]_vars

\* ================================================================== claims
\* Helpers of the statements below.
Called(r, f) == \E i \in 1..Len(calls[r]) : calls[r][i] = f
IsBlank(text) == \A i \in 1..Len(text) : text[i] \in Whitespace
Started(r) == pc[r] # "idle"
Returned(r) == pc[r] = "done"
Posted(r) == ~response[r].is_none
Searched(r) == ~results[r].is_none
SearchRaised(r) == Searched(r) /\ results[r].value.kind = "raise"
SearchAnswered(r) == Searched(r) /\ results[r].value.kind = "results"
Formatted(r) == pc[r] = "assemble" \/ (pc[r] = "done" /\ result[r].kind = "dict")
HasErrorLine(r) == \E i \in 1..Len(log[r]) : log[r][i][1] = "error"

\* The vector the embedding service sent, if it sent one (Some), read off the
\* outcome of the post.
ServiceVector(post) ==
    IF post.kind = "transport" THEN None
    ELSE IF post.status # 200 \/ post.json.is_none THEN None
    ELSE IF "data" \notin DOMAIN post.json.value THEN None
    ELSE IF Len(post.json.value.data) = 0 THEN None
    ELSE IF "embedding" \notin DOMAIN post.json.value.data[1] THEN None
    ELSE Some(post.json.value.data[1].embedding)

\* The hits of the one result set a search answered with.
Hits(r) == results[r].value.sets[1]
\* The positions of the hits within the threshold.
Passing(r) == {i \in 1..Len(Hits(r)) : Hits(r)[i].distance <= valves.SCORE_THRESHOLD}
\* The sum of the distances of the hits within the threshold.
PassingSum(r) ==
    LET F[i \in 0..Len(Hits(r))] ==
            IF i = 0 THEN 0
            ELSE F[i-1] + (IF i \in Passing(r) THEN Hits(r)[i].distance ELSE 0)
    IN  F[Len(Hits(r))]
\* The position of the k-th occurrence of `token` in `text` (0 if none).
NthPos(text, token, k) ==
    LET P == {i \in 1..Len(text) : text[i] = token}
    IN  IF \E p \in P : Cardinality({q \in P : q <= p}) = k
        THEN CHOOSE p \in P : Cardinality({q \in P : q <= p}) = k
        ELSE 0
Count(text, token) == Cardinality({i \in 1..Len(text) : text[i] = token})

\* C1: a run whose query is empty or only whitespace never invokes
\* get_embedding and returns a fixed message (never the embedding-failure
\* message or the augmented request).
C1_BlankQueryShortCircuits ==
    \A r \in Runs :
        (Started(r) /\ IsBlank(user_message[r])) =>
            /\ ~Called(r, "get_embedding")
            /\ Returned(r) =>
                 (result[r].kind = "str" /\ result[r].text # EMBEDDING_FAILED_MSG)

\* C2: whenever get_embedding fails (the post failed, the body is malformed or
\* the vector has the wrong length), pipe has returned the fixed
\* "Failed to generate embedding" message and search_documents was not called.
C2_EmbeddingFailureStops ==
    \A r \in Runs :
        (Posted(r) /\ LET v == ServiceVector(response[r].value)
                      IN  v.is_none \/ Len(v.value) # EMBEDDING_DIM) =>
            /\ Returned(r)
            /\ result[r] = Str(EMBEDDING_FAILED_MSG)
            /\ ~Called(r, "search_documents")

C2_Witness ==
    \E r \in Runs :
        /\ Posted(r)
        /\ ~ServiceVector(response[r].value).is_none
        /\ Len(ServiceVector(response[r].value).value) = 10
        /\ Returned(r)

\* C3: get_embedding returns a vector only if the service's vector has exactly
\* EMBEDDING_DIM entries, and then that very vector; for any other length it
\* returns None.
C3_EmbeddingDimensionExact ==
    \A r \in Runs :
        Posted(r) =>
            LET v == ServiceVector(response[r].value)
            IN  /\ ~embedding[r].is_none =>
                     /\ ~v.is_none
                     /\ Len(v.value) = EMBEDDING_DIM
                     /\ embedding[r].value = v.value
                /\ (~v.is_none /\ Len(v.value) # EMBEDDING_DIM) => embedding[r].is_none

C3_Witness ==
    \E r \in Runs :
        /\ Posted(r)
        /\ ~embedding[r].is_none
        /\ Len(embedding[r].value) = EMBEDDING_DIM

\* C4: the documents search_documents returns are exactly the candidates whose
\* distance is <= the threshold, each with its score <= the threshold, as a
\* subsequence of the candidate list in the same order.
C4_ThresholdFilter ==
    \A r \in Runs :
        SearchAnswered(r) =>
            LET docs == documents[r]
                hits == Hits(r)
            IN  /\ \A k \in 1..Len(docs) : docs[k].score <= valves.SCORE_THRESHOLD
                /\ \E f \in [1..Len(docs) -> 1..Len(hits)] :
                     /\ \A i, j \in 1..Len(docs) : i < j => f[i] < f[j]
                     /\ \A k \in 1..Len(docs) :
                          /\ docs[k].score = hits[f[k]].distance
                          /\ docs[k].doc_id = Get(Entity(hits[f[k]].id), "doc_id", -1)
                     /\ {f[k] : k \in 1..Len(docs)} = Passing(r)
                /\ \A i, j \in 1..Len(docs) : i < j => docs[i].score <= docs[j].score

C4_Witness ==
    \E r \in Runs :
        /\ SearchAnswered(r)
        /\ Len(Hits(r)) = 2
        /\ Len(documents[r]) = 1
        /\ Hits(r)[1].distance = valves.SCORE_THRESHOLD

\* C5: when no candidate passes the threshold, pipe returns the fixed
\* "no relevant results" message, format_context is not called, and no
\* error line is logged.
C5_EmptyResultSet ==
    \A r \in Runs :
        (SearchAnswered(r) /\ Passing(r) = {}) =>
            /\ Returned(r)
            /\ result[r] = Str(NO_RESULTS_MSG)
            /\ ~Called(r, "format_context")
            /\ ~HasErrorLine(r)

C5_Witness ==
    \E r \in Runs :
        /\ SearchAnswered(r)
        /\ Len(Hits(r)) > 0
        /\ Passing(r) = {}
        /\ Returned(r)

\* The position in the candidate list of the k-th hit within the threshold.
KthPassing(r, k) ==
    CHOOSE i \in Passing(r) : Cardinality({j \in Passing(r) : j <= i}) = k

\* C6: a successful run over the n >= 1 surviving documents reports
\* total_sources = n and average_score = (sum of their scores) / n, and its
\* context holds exactly n "Document i" sections, numbered 1..n, in the order
\* of the surviving candidates; scores 0.5 and 1.8 give 2 and 1.15.
C6_MetadataAndSections ==
    \A r \in Runs :
        (Returned(r) /\ result[r].kind = "dict") =>
            LET md == result[r].dict.metadata
                n == Cardinality(Passing(r))
                ctx == context[r]
            IN  /\ n >= 1
                /\ md.total_sources = n
                /\ md.average_score.den > 0
                /\ md.average_score.num * n = PassingSum(r) * md.average_score.den
                /\ Count(ctx, "Document ") = n
                /\ \A k \in 1..n :
                     LET p == NthPos(ctx, "Document ", k)
                         q == NthPos(ctx, "Relevance Score: ", k)
                     IN  /\ ctx[p + 1] = ToString(k)
                         /\ p < q
                         /\ k < n => q < NthPos(ctx, "Document ", k + 1)
                         /\ SubSeq(ctx, q + 1, q + 6)
                              = Fixed4(Hits(r)[KthPassing(r, k)].distance)
                /\ ( /\ Len(Hits(r)) = 2
                     /\ Hits(r)[1].distance = 50
                     /\ Hits(r)[2].distance = 180
                     /\ valves.SCORE_THRESHOLD = 200 ) =>
                       /\ md.total_sources = 2
                       /\ md.average_score.num = 115 * md.average_score.den

C6_Witness ==
    \E r \in Runs :
        /\ Returned(r)
        /\ result[r].kind = "dict"
        /\ Len(Hits(r)) = 2
        /\ Hits(r)[1].distance = 50
        /\ Hits(r)[2].distance = 180
        /\ valves.SCORE_THRESHOLD = 200

\* The bullet fields of a document and the labels of their blocks.
BulletFields ==
    { << "key_points", "Key Points:\n" >>,
      << "technical_terms", "Technical Terms:\n" >>,
      << "relationships", "Relationships:\n" >> }

\* C7: for every document whose key-points (technical-terms, relationships)
\* string is empty, the bullet block of that field is the placeholder
\* "Not available".
C7_EmptyFieldPlaceholder ==
    \A r \in Runs :
        Formatted(r) =>
            \A k \in 1..Len(documents[r]) : \A f \in BulletFields :
                Len(documents[r][k][f[1]]) = 0 =>
                    LET p == NthPos(context[r], f[2], k)
                    IN  /\ p > 0
                        /\ context[r][p + 1] = "Not available"
                        /\ context[r][p + 2] = "\n\n"

C7_Witness ==
    \E r \in Runs :
        /\ Formatted(r)
        /\ \E k \in 1..Len(documents[r]) :
             /\ Len(documents[r][k].key_points) = 0
             /\ Len(documents[r][k].technical_terms) > 0

\* C8: for every document field longer than its cutoff, the excerpt is exactly
\* the first cutoff characters of the field followed by the continuation
\* marker: text (1000), abstract (500) and summary (200).
C8_TruncationExact ==
    \A r \in Runs :
        Formatted(r) =>
            \A k \in 1..Len(documents[r]) :
                LET doc == documents[r][k]
                    ctx == context[r]
                    pt == NthPos(ctx, "Most Relevant Content:\n", k)
                    pa == NthPos(ctx, "Abstract:\n", k)
                IN  /\ Len(doc.text) > TEXT_CUTOFF =>
                         /\ SubSeq(ctx, pt + 1, pt + TEXT_CUTOFF)
                              = SubSeq(doc.text, 1, TEXT_CUTOFF)
                         /\ ctx[pt + TEXT_CUTOFF + 1] = "..."
                         /\ ctx[pt + TEXT_CUTOFF + 2] = "\n\n"
                    /\ Len(doc.abstract) > ABSTRACT_CUTOFF =>
                         /\ SubSeq(ctx, pa + 1, pa + ABSTRACT_CUTOFF)
                              = SubSeq(doc.abstract, 1, ABSTRACT_CUTOFF)
                         /\ ctx[pa + ABSTRACT_CUTOFF + 1] = "..."
                         /\ ctx[pa + ABSTRACT_CUTOFF + 2] = "\n\n"
                    /\ Len(doc.summary) > SUMMARY_CUTOFF =>
                         metadata[r][k].summary
                           = SubSeq(doc.summary, 1, SUMMARY_CUTOFF) \o << "..." >>

C8_Witness ==
    \E r \in Runs :
        /\ Formatted(r)
        /\ \E k \in 1..Len(documents[r]) :
             /\ Len(documents[r][k].text) = 2000
             /\ Len(documents[r][k].summary) > SUMMARY_CUTOFF
             /\ Len(documents[r][k].abstract) > ABSTRACT_CUTOFF

\* C9: when the index search raises, search_documents raises too (it returns
\* no empty list: no "no documents" warning, no formatting), and pipe returns
\* an error message that is not the "no relevant results" message.
C9_RetrievalFailureDistinct ==
    \A r \in Runs :
        SearchRaised(r) =>
            /\ Returned(r)
            /\ result[r].kind = "str"
            /\ result[r].text # NO_RESULTS_MSG
            /\ Head(result[r].text) = ERROR_PREFIX
            /\ log[r][Len(log[r])] = << "error", "Pipeline error: " >>
            /\ \A i \in 1..Len(log[r]) : log[r][i][1] # "warning"
            /\ ~Called(r, "format_context")

C9_Witness ==
    \E r \in Runs : SearchRaised(r) /\ Returned(r)

\* The stage a returned run failed at ("none" when it did not fail).
FailedStage(r) ==
    IF ~Returned(r) THEN "none"
    ELSE IF Posted(r) /\ embedding[r].is_none THEN "embed"
    ELSE IF SearchRaised(r) THEN "search"
    ELSE "none"

\* C10: two runs that fail at the same stage return the same message,
\* whatever the text of the internal exception.
C10_FailureMessageFixedPerStage ==
    \A r1, r2 \in Runs :
        (FailedStage(r1) # "none" /\ FailedStage(r1) = FailedStage(r2)) =>
            result[r1] = result[r2]

\* C11: whatever the embedding service and the index answer, a run that has
\* ended has returned the augmented request or a message string (no
\* exception left pipe), and a run that has not ended has returned nothing
\* and can take its next step: the call of its stage is enabled, and in the
\* format stage format_context yields a context for its documents.
C11_AlwaysReturnsDictOrStr ==
    \A r \in Runs :
        /\ Returned(r) => result[r].kind \in {"str", "dict"}
        /\ ~Returned(r) => result[r] = NoResult
        /\ (Started(r) /\ ~Returned(r)) =>
             pc[r] \in {"embed", "search", "format", "assemble"}
        /\ pc[r] = "embed" => ENABLED GetEmbedding(r)
        /\ pc[r] = "search" => ENABLED SearchDocuments(r)
        /\ pc[r] = "format" =>
             /\ Len(format_context(documents[r]).context) > 0
             /\ Len(format_context(documents[r]).metadata) = Len(documents[r])
        /\ pc[r] = "assemble" => ENABLED Assemble(r)

C11_Witness ==
    \E r1, r2 \in Runs :
        /\ Returned(r1) /\ result[r1].kind = "dict"
        /\ Returned(r2) /\ SearchRaised(r2) /\ result[r2].kind = "str"

\* The outcome of an attempt is a transient condition: a status of the
\* configured list, a transport-level failure or a timeout.
Transient(post) == post.kind = "transport" \/ post.status \in STATUS_FORCELIST

\* C12: every attempt of the embedding request is the first, second or third
\* of its get_embedding call, and get_embedding returns on a transient
\* condition only when that attempt has spent the budget: until then the
\* request is sent again.
C12_BoundedTransientRetry ==
    [][\A r \in Runs :
          (pc[r] = "embed" /\ (attempts'[r] # attempts[r] \/ pc'[r] # "embed")) =>
              /\ attempts[r] + 1 <= RETRY_TOTAL
              /\ (pc'[r] # "embed" /\ Transient(response'[r].value)) =>
                     /\ attempts[r] + 1 = RETRY_TOTAL
                     /\ embedding'[r] = None]_vars

\* The stage methods in the order pipe calls them.
STAGES == << "get_embedding", "search_documents", "format_context" >>

\* C13: the stage methods a run has called are an initial part of embed,
\* search, format, each once; search was called only with a vector of the
\* right dimension, format only with a non-empty document list, assembly
\* happened only after all three, and a run that ended early called nothing
\* after the stage that ended it.
C13_StagesInOrder ==
    \A r \in Runs :
        /\ Len(calls[r]) <= Len(STAGES)
        /\ calls[r] = SubSeq(STAGES, 1, Len(calls[r]))
        /\ Called(r, "search_documents") =>
              /\ ~embedding[r].is_none
              /\ Len(embedding[r].value) = EMBEDDING_DIM
        /\ Called(r, "format_context") =>
              /\ SearchAnswered(r)
              /\ Len(documents[r]) > 0
        /\ Formatted(r) => calls[r] = STAGES
        /\ (Returned(r) /\ result[r] = Str(EMBEDDING_FAILED_MSG)) =>
              calls[r] = SubSeq(STAGES, 1, 1)
        /\ (Returned(r) /\ (SearchRaised(r) \/ result[r] = Str(NO_RESULTS_MSG))) =>
              calls[r] = SubSeq(STAGES, 1, 2)
        /\ pc[r] \in {"idle", "embed"} => calls[r] = <<>>
        /\ pc[r] = "search" => calls[r] = SubSeq(STAGES, 1, 1)
        /\ pc[r] = "format" => calls[r] = SubSeq(STAGES, 1, 2)

C13_Witness ==
    \E r1, r2 \in Runs :
        /\ Returned(r1) /\ result[r1].kind = "dict" /\ calls[r1] = STAGES
        /\ Returned(r2) /\ result[r2] = Str(NO_RESULTS_MSG)
        /\ Len(calls[r2]) = 2

\* What pipe returns to run r when r runs alone with its query, the outcome
\* its embedding request ended in, the outcome its search ended in and the
\* elapsed time measured for it.
Alone(r, elapsed) ==
    IF Falsy(get_embedding(response[r].value).ret)
    THEN Str(EMBEDDING_FAILED_MSG)
    ELSE LET got == search_documents(results[r].value, valves)
         IN  IF got.raised THEN handle_exception(got.text)
             ELSE IF NoDocuments(got.documents) THEN Str(NO_RESULTS_MSG)
             ELSE LET formatted == format_context(got.documents)
                  IN  Dict([ messages |-> build_messages(formatted.context,
                                                         user_message[r]),
                             metadata |-> run_metadata(formatted.metadata,
                                                       got.documents, elapsed) ]
                           @@ InitialBody)

\* The part of the state that belongs to run r.
Frame(r) == << pc[r], user_message[r], body[r], response[r], embedding[r],
               results[r], documents[r], context[r], metadata[r], result[r],
               calls[r], log[r], attempts[r] >>

\* C14: no step of any run changes the shared Pipeline object (valves,
\* collection) or the callers, a step changes the state of one run only, and
\* a run that returns in any interleaving returns what it returns alone on the
\* same query and the same service outcomes.
C14_RunsDoNotInterfere ==
    /\ [][/\ UNCHANGED << valves, collection, callers >>
          /\ \A r1, r2 \in Runs :
                (r1 # r2 /\ Frame(r1)' # Frame(r1)) => Frame(r2)' = Frame(r2)
         ]_vars
    /\ [](\A r \in Runs :
             Returned(r) =>
                 \E elapsed \in ElapsedTimes : result[r] = Alone(r, elapsed))

\* Two runs were in flight together and both have returned, one with the
\* augmented request and one with a message.
C14_Witness ==
    /\ callers = Runs
    /\ Returned("r1") /\ result["r1"].kind = "dict"
    /\ Returned("r2") /\ result["r2"].kind = "str"
    /\ log["r1"][Len(log["r1"])] = <<"info", "Pipeline completed">>
    /\ Called("r2", "get_embedding")

\* C15: a call of the text-to-art pipe whose message is empty or made of
\* whitespace only has returned the fixed error message, whatever font its
\* body names, and has started no subprocess.
C15_BlankArtMessage ==
    (art_pc # "idle" /\ IsBlank(art_user_message)) =>
        /\ art_pc = "done"
        /\ art_result = Some(ART_EMPTY_MSG)
        /\ commands = <<>>
        /\ ascii_art = None

C15_Witness ==
    /\ art_pc = "done"
    /\ Len(art_user_message) > 1
    /\ IsBlank(art_user_message)
    /\ "font" \in DOMAIN art_body
    /\ art_body.font # DEFAULT_FONT

\* The output fields whose placeholder is the empty string.
TextFields == { "text", "summary", "abstract", "key_points", "technical_terms",
                "relationships" }

C17_BodyWrittenOnSuccessOnly ==
    \A r \in Runs :
        /\ (Returned(r) /\ result[r].kind = "dict") =>
              /\ DOMAIN body[r] = DOMAIN InitialBody \cup {"messages", "metadata"}
              /\ body[r] = result[r].dict
              /\ calls[r] = STAGES
        /\ ~(Returned(r) /\ result[r].kind = "dict") => body[r] = InitialBody
        /\ \A k \in DOMAIN InitialBody :
              k \in DOMAIN body[r] /\ body[r][k] = InitialBody[k]

\* A run ended in the error message of a failed index search, and its body is
\* as it was passed.
C17_Witness ==
    \E r \in Runs :
        /\ Returned(r)
        /\ result[r].kind = "str"
        /\ SearchRaised(r)
        /\ Len(log[r]) > 3
        /\ body[r] = InitialBody

\* C18: the bullet block of every bullet field of every formatted document is
\* not blank: it is the placeholder "Not available" or holds one bullet line
\* per non-empty trimmed token of the field, at least one, and the section of
\* the context starts with it.
C18_BulletBlockNeverBlank ==
    \A r \in Runs :
        Formatted(r) =>
            \A k \in 1..Len(documents[r]) : \A f \in BulletFields :
                LET text == documents[r][k][f[1]]
                    block == format_bullet_points(text, ",")
                    p == NthPos(context[r], f[2], k)
                IN  /\ Len(block) > 0
                    /\ \/ block = NOT_AVAILABLE
                       \/ /\ Count(block, BULLET) >= 1
                          /\ Count(block, BULLET) =
                                Len(StrippedPoints(Split(text, ",")))
                    /\ context[r][p + 1] \in { "Not available", BULLET }

\* The blocks of a list of processed messages, in order.
Flatten(msgs) ==
    LET F[i \in 0..Len(msgs)] ==
            IF i = 0 THEN <<>> ELSE F[i-1] \o msgs[i].content
    IN  F[Len(msgs)]

\* The items of a list of input messages, in order, a string content being
\* one text item.
InputItems(msgs) ==
    LET F[i \in 0..Len(msgs)] ==
            IF i = 0 THEN <<>>
            ELSE F[i-1] \o (IF msgs[i].content.kind = "str"
                            THEN << TextItem(msgs[i].content.text) >>
                            ELSE msgs[i].content.items)
    IN  F[Len(msgs)]

IsText(b) == b.type = "text"
IsImage(b) == b.type = "image"
IsValidImage(b) == b.type = "image_url" /\ b.data \in ValidImages
Data(blocks) == [i \in 1..Len(blocks) |-> blocks[i].data]

\* C19: image_count is the number of image blocks built so far over all
\* messages and never exceeds MAX_IMAGES_PER_REQUEST; the payload holds at
\* most that many image blocks, namely the first images process_image
\* accepted, and every text of the request, in order.
C19_ImageCapAcrossMessages ==
    /\ image_count <= MAX_IMAGES_PER_REQUEST
    /\ manifold_pc \in {"message", "item"} =>
          image_count =
             Len(SelectSeq(Flatten(processed_messages)
                           \o (IF manifold_pc = "item" THEN processed_content
                               ELSE <<>>), IsImage))
    /\ (manifold_pc = "done" /\ model_id \in KnownModels) =>
          LET blocks == Flatten(payload.value)
              items == InputItems(messages)
          IN  /\ Len(SelectSeq(blocks, IsImage)) <= MAX_IMAGES_PER_REQUEST
              /\ Len(SelectSeq(blocks, IsImage)) = image_count
              /\ Data(SelectSeq(blocks, IsImage)) =
                    Prefix(Data(SelectSeq(items, IsValidImage)),
                           MAX_IMAGES_PER_REQUEST)
              /\ Data(SelectSeq(blocks, IsText)) = Data(SelectSeq(items, IsText))

\* A request with more acceptable images than the cap: the payload holds
\* MAX_IMAGES_PER_REQUEST of them, a text item after the first skipped image
\* is its last block, and a later message of images only was dropped.
C19_Witness ==
    /\ manifold_pc = "done"
    /\ model_id \in KnownModels
    /\ Len(messages) = 3
    /\ Len(SelectSeq(InputItems(messages), IsValidImage)) > MAX_IMAGES_PER_REQUEST + 1
    /\ Len(SelectSeq(Flatten(payload.value), IsImage)) = MAX_IMAGES_PER_REQUEST
    /\ Len(payload.value) = 2
    /\ Flatten(payload.value)[Len(Flatten(payload.value))].type = "text"

====
